---- MODULE Spec2Model ----
(***************************************************************************)
(* Sampling-and-reporting pipeline of the ESP32 environmental node.        *)
(*                                                                         *)
(* The repository holds three sketches of the same device:                 *)
(*   "thingspeak"    src/Projeto_IoT/Projeto_IoT.ino  running sum / count  *)
(*   "sheets_media"  src/unnamed/part_000             circular buffer      *)
(*   "sheets_direto" src/unnamed/part_001             one reading per pass *)
(* One of them is flashed on the device (variable firmware); one action    *)
(* models one whole pass of that sketch's loop().                          *)
(*                                                                         *)
(* A C float is modelled as an exact rational with denominator FIX: the    *)
(* integer x stands for x / FIX.  Rounding error of float arithmetic is    *)
(* not modelled.  Time is in milliseconds, as millis() returns it, on a    *)
(* counter of TickBits bits.                                               *)
(***************************************************************************)
EXTENDS Integers, Sequences, FiniteSets, TLC

\* ------------------------------------------------------------------------
\* Bounds of the model
\* ------------------------------------------------------------------------

\* Width of the millis() counter and of the unsigned long time stamps.
TickBits == 14

\* Sampling ticks taken since startup before the model stops.
MaxColetas == 10

\* Upper bound on the time the device stays without a fired due-check.
MaxDecorrido == 12288

\* Duration of one loop pass (delay(), sensor reads, blocking HTTP), in ms.
PassDurations == {2048}

\* Echo pulse lengths the HC-SR04 produces, in microseconds (0: no echo).
Duracoes == {0, 2333, 2916}

\* Raw results of BH1750::readLightLevel() on a configured meter, in lux
\* (-1: measurement not ready).
LuxBrutos == {-1, 40}

\* HTTP results: status codes, and HTTPClient's negative transport errors.
Codigos == {200, 404, -11}

\* ------------------------------------------------------------------------
\* Floats
\* ------------------------------------------------------------------------

\* Denominator of the fixed-point representation of a float.
FIX == 20000 * 20

\* The float with integer value x.
F(x) == x * FIX

\* Float division by an int (somaDistancia / NUM_AMOSTRAS, soma / tamanho).
FDiv(x, n) == x \div n

Modulo == 2 ^ TickBits

\* Unsigned subtraction of two time stamps (tempoAtual - ultimoTempoColeta).
USub(a, b) == (a - b) % Modulo

\* ------------------------------------------------------------------------
\* Configuration of the sketches
\* ------------------------------------------------------------------------

Firmwares == {"thingspeak", "sheets_media", "sheets_direto"}

MAX_DISTANCE_CM == 350
MIN_VALID_DISTANCE_CM == 2

LEITURA_INTERVALO_MS == 15000
NUM_AMOSTRAS == 5
COLETA_INTERVALO_MS == LEITURA_INTERVALO_MS \div NUM_AMOSTRAS

LEITURA_INTERVALO_MS_sheets == 10000
NUM_AMOSTRAS_sheets == 4
LIMIAR_DISTANCIA_CM == 50
LIMIAR_LUX == 30

\* pulseIn() timeout of the ThingSpeak sketch, in microseconds.
PULSE_TIMEOUT_US == 30000

\* Default pulseIn() timeout, used by the Sheets sketches.
PULSE_TIMEOUT_US_sheets == 1000000

WL_CONNECTED == "WL_CONNECTED"
WL_DISCONNECTED == "WL_DISCONNECTED"
WiFiStatus == {WL_CONNECTED, WL_DISCONNECTED}

\* ------------------------------------------------------------------------
\* Sensor adapters
\* ------------------------------------------------------------------------

\* distance = (duration * 0.0343) / 2
Distancia(duration) == (duration * ((343 * FIX) \div 10000)) \div 2

\* pulseIn(echoPin, HIGH, timeout): the length of the echo pulse, 0 when no
\* pulse ended within the timeout.
pulseIn(echo, timeout) == IF echo >= timeout THEN 0 ELSE echo

\* BH1750::readLightLevel(): -2 on a meter that was never configured,
\* otherwise the raw level (-1 while no measurement is ready).
readLightLevel(configurado, raw) == IF configurado THEN F(raw) ELSE F(-2)

\* Mutant: the filter without its lower limit.
proximidade_semMinimo(duration) ==
    LET distance == Distancia(duration)
    IN  IF distance > F(MAX_DISTANCE_CM) THEN F(-1) ELSE distance

\* proximidade() of the ThingSpeak sketch: plausibility filter, -1.0 on reject.
proximidade(duration) ==
    LET distance == Distancia(duration)
    IN  IF distance > F(MAX_DISTANCE_CM) \/ distance < F(MIN_VALID_DISTANCE_CM)
        THEN F(-1)
        ELSE distance

\* luminosidade() of the ThingSpeak sketch: -2.0 on a negative level.
luminosidade(nivel) == IF nivel < 0 THEN F(-2) ELSE nivel

\* proximidade() of the Sheets sketches: the distance, unfiltered.
proximidade_sheets(duration) == Distancia(duration)

\* luminosidade() of the Sheets sketches: begin() is tried while the flag is
\* down (beginOk: it succeeds); -3.00 when it fails, the raw level otherwise.
\* tentou: this call called begin().
luminosidade_sheets(iniciado, beginOk, raw) ==
    IF ~iniciado /\ ~beginOk
    THEN [lux |-> F(-3), iniciado |-> FALSE, tentou |-> TRUE]
    ELSE [lux |-> readLightLevel(TRUE, raw), iniciado |-> TRUE,
          tentou |-> ~iniciado]

\* Mutant: one valid reading is enough.
leituraValida_ou(d, l) == (d # F(-1)) \/ (l # F(-2))

\* bool leituraValida = (distancia != -1.0) && (lux != -2.0);
leituraValida(d, l) == (d # F(-1)) /\ (l # F(-2))

\* ------------------------------------------------------------------------
\* Scheduler
\* ------------------------------------------------------------------------

\* Mutant: the time stamps compared without the unsigned wrap-around.
Vencido_semWrap(agora, ultimo, intervalo) == agora - ultimo >= intervalo

\* if (tempoAtual - ultimoTempoColeta >= COLETA_INTERVALO_MS)
Vencido(agora, ultimo, intervalo) == USub(agora, ultimo) >= intervalo

\* ------------------------------------------------------------------------
\* Reporter
\* ------------------------------------------------------------------------

\* The record handed to the Reporter.  The ThingSpeak record has no alert
\* fields ("ausente"); the Sheets record carries them as JSON literals.
Registro(d, l, ap, al) ==
    [distancia |-> d, lux |-> l, alertaProx |-> ap, alertaLux |-> al]

\* Mutant: the request is made without looking at the Wi-Fi status.
enviar_dados_thingspeak_semVerificar(status, codigo, rec) ==
    [serial |-> <<"enviando",
                  IF codigo > 0 THEN "envio_bem_sucedido" ELSE "falha_ao_enviar">>,
     pedidos |-> <<rec>>,
     respostas |-> <<codigo>>]

\* Serial lines and HTTP request of one call of enviar_dados_thingspeak().
enviar_dados_thingspeak(status, codigo, rec) ==
    IF status # WL_CONNECTED
    THEN [serial |-> <<"wifi_desconectado">>, pedidos |-> << >>,
          respostas |-> << >>]
    ELSE [serial |-> <<"enviando",
                       IF codigo > 0 THEN "envio_bem_sucedido"
                                     ELSE "falha_ao_enviar">>,
          pedidos |-> <<rec>>,
          respostas |-> <<codigo>>]

\* Mutant: a failed request is made a second time.
enviar_dados_sheets_comRetry(status, codigo, rec) ==
    IF status # WL_CONNECTED
    THEN [serial |-> <<"wifi_nao_conectado">>, pedidos |-> << >>,
          respostas |-> << >>]
    ELSE IF codigo > 0
    THEN [serial |-> <<"enviando_json", "dados_enviados">>,
          pedidos |-> <<rec>>, respostas |-> <<codigo>>]
    ELSE [serial |-> <<"enviando_json", "falha_ao_enviar", "enviando_json",
                       "falha_ao_enviar">>,
          pedidos |-> <<rec, rec>>, respostas |-> <<codigo, codigo>>]

\* Serial lines and HTTP request of one call of enviar_dados_sheets().
enviar_dados_sheets(status, codigo, rec) ==
    IF status # WL_CONNECTED
    THEN [serial |-> <<"wifi_nao_conectado">>, pedidos |-> << >>,
          respostas |-> << >>]
    ELSE [serial |-> <<"enviando_json",
                       IF codigo > 0 THEN "dados_enviados"
                                     ELSE "falha_ao_enviar">>,
          pedidos |-> <<rec>>,
          respostas |-> <<codigo>>]

\* ------------------------------------------------------------------------
\* State
\* ------------------------------------------------------------------------

VARIABLES
    firmware,            \* the sketch flashed on the device
    millis,              \* millis() as last read
    lightmeter,          \* TRUE once BH1750::begin() has succeeded
    \* Projeto_IoT.ino
    ultimoTempoColeta, somaDistancia, somaLux, contadorAmostras,
    \* part_000
    ultimoTempoLeitura, indiceAmostra, amostrasColetadas, distarray, lux_arr,
    bh1750_iniciado,
    \* what the last loop pass did
    coletou,             \* the due-check fired
    eco,                 \* the echo pulse measured, in us (-1 when none was)
    distancia, lux,      \* the readings taken (0 when none was taken)
    tentouBegin,         \* luminosidade() called BH1750::begin()
    relatorio,           \* records handed to the Reporter
    pedidos, respostas,  \* HTTP requests made and their results
    serial,              \* lines written to Serial
    reconectou,          \* WiFi.reconnect() was called
    etapas,              \* steps of the pipeline the pass went through, in order
    wifi,                \* the last WiFi.status() read
    \* history
    decorrido,           \* real time since the due-check last fired
    semReconexao,        \* time the link has been found down with no
                         \* WiFi.reconnect() called
    devido,              \* real time that had passed when the due-check ran
    janela,              \* samples taken into the window since the last report
    reduzida,            \* the window the last pass reduced
    nColetas,            \* number of fired due-checks since startup
    nRelatorios          \* number of records handed to the Reporter

vars == <<firmware, millis, lightmeter, wifi,
          ultimoTempoColeta, somaDistancia, somaLux, contadorAmostras,
          ultimoTempoLeitura, indiceAmostra, amostrasColetadas, distarray,
          lux_arr, bh1750_iniciado,
          coletou, eco, distancia, lux, tentouBegin, relatorio, pedidos,
          respostas, serial, reconectou, etapas, semReconexao, decorrido, devido, janela, reduzida, nColetas,
          nRelatorios>>

varsThingspeak == <<ultimoTempoColeta, somaDistancia, somaLux, contadorAmostras>>

varsSheets == <<ultimoTempoLeitura, indiceAmostra, amostrasColetadas, distarray,
                lux_arr, bh1750_iniciado>>

Amostra(d, l) == [distancia |-> d, lux |-> l]

\* State after setup() of the flashed sketch.  Only the ThingSpeak sketch
\* configures the light meter in setup(); begin() may fail there.
Init ==
    /\ firmware \in Firmwares
    /\ millis = 0
    /\ lightmeter \in (IF firmware = "thingspeak" THEN BOOLEAN ELSE {FALSE})
    /\ ultimoTempoColeta = 0
    /\ somaDistancia = F(0)
    /\ somaLux = F(0)
    /\ contadorAmostras = 0
    /\ ultimoTempoLeitura = 0
    /\ indiceAmostra = 0
    /\ amostrasColetadas = 0
    /\ distarray = [i \in 0..(NUM_AMOSTRAS_sheets - 1) |-> F(0)]
    /\ lux_arr = [i \in 0..(NUM_AMOSTRAS_sheets - 1) |-> F(0)]
    /\ bh1750_iniciado = FALSE
    /\ coletou = FALSE
    /\ eco = -1
    /\ distancia = 0
    /\ lux = 0
    /\ tentouBegin = FALSE
    /\ relatorio = << >>
    /\ pedidos = << >>
    /\ respostas = << >>
    /\ serial = << >>
    /\ reconectou = FALSE
    /\ etapas = << >>
    /\ wifi = WL_CONNECTED
    /\ decorrido = 0
    /\ semReconexao = 0
    /\ devido = 0
    /\ janela = << >>
    /\ reduzida = << >>
    /\ nColetas = 0
    /\ nRelatorios = 0

\* ------------------------------------------------------------------------
\* loop() of Projeto_IoT.ino
\* ------------------------------------------------------------------------

\* Mutant: the sum divided by one sample too few.
MediaThingspeak_menosUm(soma) == FDiv(soma, NUM_AMOSTRAS - 1)

\* float mediaDistancia = somaDistancia / NUM_AMOSTRAS;
MediaThingspeak(soma) == FDiv(soma, NUM_AMOSTRAS)

\* Mutant: the window counts as full one sample too early.
JanelaCheiaThingspeak_cedo(contador) == contador >= NUM_AMOSTRAS - 1

\* Mutant: the window counts as full one sample too late.
JanelaCheiaThingspeak_tarde(contador) == contador > NUM_AMOSTRAS

\* if (contadorAmostras >= NUM_AMOSTRAS)
JanelaCheiaThingspeak(contador) == contador >= NUM_AMOSTRAS

\* Serial lines of the sampling branch.
SerialColeta(d, l) ==
    IF leituraValida(d, l)
    THEN <<"coleta_valida">>
    ELSE (IF d = F(-1) THEN <<"descartada_distancia">> ELSE << >>)
         \o (IF l = F(-2) THEN <<"descartada_lux">> ELSE << >>)

\* What a pass that takes no sample and sends nothing leaves behind.
NadaFeito ==
    /\ coletou' = FALSE
    /\ devido' = 0
    /\ eco' = -1
    /\ distancia' = 0
    /\ lux' = 0
    /\ relatorio' = << >>
    /\ pedidos' = << >>
    /\ respostas' = << >>
    /\ serial' = << >>
    /\ etapas' = << >>
    /\ reduzida' = << >>

\* Steps of the sending branch, in the order of its statements: the means
\* are computed, enviar_dados_thingspeak() is called, the sums and the count
\* are zeroed.
EtapasEnvioThingspeak == <<"reduce", "reporter", "reset">>

\* The sending branch of loop(): cont, somaD and somaL are the count and the
\* sums after the sampling branch, jan the samples they hold, linhas the
\* Serial lines the sampling branch wrote, feitas the steps it went through.
EnvioThingspeak(cont, somaD, somaL, jan, linhas, feitas) ==
    LET rec == Registro(MediaThingspeak(somaD), MediaThingspeak(somaL),
                        "ausente", "ausente")
    IN  IF JanelaCheiaThingspeak(cont)
        THEN \E statusEnvio \in WiFiStatus, codigo \in Codigos :
               LET envio == enviar_dados_thingspeak(statusEnvio, codigo, rec)
               IN  /\ wifi' = statusEnvio
                   /\ relatorio' = <<rec>>
                   /\ pedidos' = envio.pedidos
                   /\ respostas' = envio.respostas
                   /\ serial' = linhas \o <<"envio_thingspeak">> \o envio.serial
                   /\ etapas' = feitas \o EtapasEnvioThingspeak
                   /\ reduzida' = jan
                   /\ nRelatorios' = nRelatorios + 1
                   /\ somaDistancia' = F(0)
                   /\ somaLux' = F(0)
                   /\ contadorAmostras' = 0
                   /\ janela' = << >>
        ELSE /\ wifi' = WL_CONNECTED
             /\ relatorio' = << >>
             /\ pedidos' = << >>
             /\ respostas' = << >>
             /\ serial' = linhas
             /\ etapas' = feitas
             /\ reduzida' = << >>
             /\ nRelatorios' = nRelatorios
             /\ somaDistancia' = somaD
             /\ somaLux' = somaL
             /\ contadorAmostras' = cont
             /\ janela' = jan

\* The sampling branch of loop() followed by the sending branch, the
\* due-check having fired at agora and the adapters having returned d and l.
ColetaThingspeak(agora, d, l) ==
    LET aceita == leituraValida(d, l)
    IN  /\ nColetas < MaxColetas
        /\ ultimoTempoColeta' = agora
        /\ coletou' = TRUE
        /\ distancia' = d
        /\ lux' = l
        /\ nColetas' = nColetas + 1
        /\ EnvioThingspeak(
              IF aceita THEN contadorAmostras + 1 ELSE contadorAmostras,
              IF aceita THEN somaDistancia + d ELSE somaDistancia,
              IF aceita THEN somaLux + l ELSE somaLux,
              IF aceita THEN Append(janela, Amostra(d, l)) ELSE janela,
              SerialColeta(d, l),
              IF aceita THEN <<"ingest">> ELSE << >>)

\* Period of the reconnection attempts, in ms.
PERIODO_RECONEXAO == 5000

\* if (millis() % 5000 < 50)
HoraDeReconectar(agora) == agora % PERIODO_RECONEXAO < 50

\* Mutant: the test of the Wi-Fi status inverted.
SemLigacao_invertido(status) == status = WL_CONNECTED

\* if (WiFi.status() != WL_CONNECTED) at the top of loop()
SemLigacao(status) == status # WL_CONNECTED

\* One pass of loop(); leituras is the set of triples <<echo pulse, distancia,
\* lux>> the two adapters may produce in this pass.
PassoThingspeak(dt, statusTopo, leituras) ==
    LET agora == (millis + dt) % Modulo
    IN  /\ firmware = "thingspeak"
        /\ decorrido + dt <= MaxDecorrido
        /\ millis' = agora
        /\ tentouBegin' = FALSE
        /\ UNCHANGED <<firmware, lightmeter, varsSheets>>
        /\ IF SemLigacao(statusTopo)
           THEN \* Wi-Fi down: try to reconnect, delay(100), return
                /\ reconectou' = HoraDeReconectar(agora)
                /\ semReconexao' = IF HoraDeReconectar(agora)
                                   THEN 0 ELSE semReconexao + dt
                /\ wifi' = statusTopo
                /\ decorrido' = decorrido + dt
                /\ NadaFeito
                /\ UNCHANGED <<varsThingspeak, janela, nColetas, nRelatorios>>
           ELSE /\ reconectou' = FALSE
                /\ semReconexao' = 0
                /\ IF Vencido(agora, ultimoTempoColeta, COLETA_INTERVALO_MS)
                   THEN /\ devido' = decorrido + dt
                        /\ decorrido' = 0
                        /\ \E t \in leituras :
                              /\ eco' = t[1]
                              /\ ColetaThingspeak(agora, t[2], t[3])
                   ELSE /\ decorrido' = decorrido + dt
                        /\ devido' = 0
                        /\ coletou' = FALSE
                        /\ eco' = -1
                        /\ distancia' = 0
                        /\ lux' = 0
                        /\ UNCHANGED <<ultimoTempoColeta, nColetas>>
                        /\ EnvioThingspeak(contadorAmostras, somaDistancia,
                                           somaLux, janela, << >>, << >>)

\* The readings the adapters of the ThingSpeak sketch may return.
LeiturasThingspeak ==
    { <<echo, proximidade(pulseIn(echo, PULSE_TIMEOUT_US)),
        luminosidade(readLightLevel(lightmeter, raw))>> :
      echo \in Duracoes, raw \in LuxBrutos }

LoopThingspeak ==
    \E dt \in PassDurations, statusTopo \in WiFiStatus :
        PassoThingspeak(dt, statusTopo, LeiturasThingspeak)

\* ------------------------------------------------------------------------
\* loop() of part_000 (circular buffer)
\* ------------------------------------------------------------------------

RECURSIVE SomaArr(_, _)
SomaArr(arr, n) == IF n <= 0 THEN F(0) ELSE SomaArr(arr, n - 1) + arr[n - 1]

\* float calcular_media(float arr[], int tamanho)
calcular_media(arr, tamanho) ==
    IF tamanho > 0 THEN FDiv(SomaArr(arr, tamanho), tamanho) ELSE F(0)

\* Mutant: the buffer counts as full one position after the wrap.
BufferCompleto_indiceErrado(coletadas, proximoIndice) ==
    coletadas = NUM_AMOSTRAS_sheets /\ proximoIndice = 1

\* Mutant: the buffer counts as full whatever the write cursor.
BufferCompleto_semIndice(coletadas, proximoIndice) ==
    coletadas = NUM_AMOSTRAS_sheets

\* if (amostrasColetadas == NUM_AMOSTRAS && proximoIndice == 0)
BufferCompleto(coletadas, proximoIndice) ==
    coletadas = NUM_AMOSTRAS_sheets /\ proximoIndice = 0

\* Mutant: the distance mean compared with the luminosity threshold.
alertaProximidade_limiarTrocado(mediaDistancia) == mediaDistancia < F(LIMIAR_LUX)

\* bool alertaProximidade = mediaDistancia < LIMIAR_DISTANCIA_CM;
alertaProximidade(mediaDistancia) == mediaDistancia < F(LIMIAR_DISTANCIA_CM)

\* bool alertaLuminosidade = mediaLux < LIMIAR_LUX;
alertaLuminosidade(mediaLux) == mediaLux < F(LIMIAR_LUX)

\* alertaProx ? "true" : "false"
Json(b) == IF b THEN "true" ELSE "false"

\* Mutant: the write cursor advanced without the wrap.
ProximoIndice_semModulo(indice) == indice + 1

\* int proximoIndice = (indiceAmostra + 1) % NUM_AMOSTRAS;
ProximoIndice(indice) == (indice + 1) % NUM_AMOSTRAS_sheets

\* Steps of the sending branch, in the order of its statements: the means
\* are computed, the alerts evaluated, enviar_dados_sheets() is called; the
\* write cursor goes back to 0 after the branch.
EtapasEnvioSheets == <<"reduce", "alertas", "reporter", "reset">>

\* The sampling branch of loop(), the due-check having fired at agora and the
\* adapters having returned d and l.
ColetaSheets(agora, d, l) ==
    LET dist1 == [distarray EXCEPT ![indiceAmostra] = d]
        lux1 == [lux_arr EXCEPT ![indiceAmostra] = l]
        proximoIndice == ProximoIndice(indiceAmostra)
        coletadas1 == IF amostrasColetadas < NUM_AMOSTRAS_sheets
                      THEN amostrasColetadas + 1
                      ELSE amostrasColetadas
        janela1 == Append(janela, Amostra(d, l))
        mediaDistancia == calcular_media(dist1, NUM_AMOSTRAS_sheets)
        mediaLux == calcular_media(lux1, NUM_AMOSTRAS_sheets)
        alertas == (IF alertaProximidade(mediaDistancia)
                    THEN <<"alerta_proximidade">> ELSE << >>)
                   \o (IF alertaLuminosidade(mediaLux)
                       THEN <<"alerta_luminosidade">> ELSE << >>)
        rec == Registro(mediaDistancia, mediaLux,
                        Json(alertaProximidade(mediaDistancia)),
                        Json(alertaLuminosidade(mediaLux)))
    IN  /\ nColetas < MaxColetas
        /\ ultimoTempoLeitura' = agora
        /\ coletou' = TRUE
        /\ distancia' = d
        /\ lux' = l
        /\ distarray' = dist1
        /\ lux_arr' = lux1
        /\ amostrasColetadas' = coletadas1
        /\ indiceAmostra' = proximoIndice
        /\ nColetas' = nColetas + 1
        /\ IF BufferCompleto(coletadas1, proximoIndice)
           THEN \E statusEnvio \in WiFiStatus, codigo \in Codigos :
                  LET envio == enviar_dados_sheets(statusEnvio, codigo, rec)
                  IN  /\ wifi' = statusEnvio
                      /\ relatorio' = <<rec>>
                      /\ pedidos' = envio.pedidos
                      /\ respostas' = envio.respostas
                      /\ serial' = <<"coleta", "analise_de_envio">>
                                   \o (IF alertas = << >> THEN <<"condicao_normal">>
                                                         ELSE alertas)
                                   \o envio.serial
                      /\ etapas' = <<"ingest">> \o EtapasEnvioSheets
                      /\ reduzida' = janela1
                      /\ nRelatorios' = nRelatorios + 1
                      /\ janela' = << >>
           ELSE /\ wifi' = wifi
                /\ relatorio' = << >>
                /\ pedidos' = << >>
                /\ respostas' = << >>
                /\ serial' = <<"coleta">>
                /\ etapas' = <<"ingest", "avanca">>
                /\ reduzida' = << >>
                /\ nRelatorios' = nRelatorios
                /\ janela' = janela1

\* One pass of loop(); leituras is the set of tuples <<echo pulse, distancia,
\* lux, bh1750_iniciado afterwards, begin() called>> the two adapters may
\* produce in this pass.
PassoSheets(dt, leituras) ==
    LET agora == (millis + dt) % Modulo
    IN  /\ firmware = "sheets_media"
        /\ decorrido + dt <= MaxDecorrido
        /\ millis' = agora
        /\ reconectou' = FALSE
        /\ UNCHANGED <<firmware, varsThingspeak, semReconexao>>
        /\ IF Vencido(agora, ultimoTempoLeitura, LEITURA_INTERVALO_MS_sheets)
           THEN /\ devido' = decorrido + dt
                /\ decorrido' = 0
                /\ \E t \in leituras :
                      /\ eco' = t[1]
                      /\ bh1750_iniciado' = t[4]
                      /\ lightmeter' = t[4]
                      /\ tentouBegin' = t[5]
                      /\ ColetaSheets(agora, t[2], t[3])
           ELSE /\ decorrido' = decorrido + dt
                /\ tentouBegin' = FALSE
                /\ NadaFeito
                /\ UNCHANGED <<varsSheets, lightmeter, wifi, janela, nColetas,
                               nRelatorios>>

\* The readings the adapters of the Sheets sketches may produce.
LeiturasSheets ==
    { <<echo, proximidade_sheets(pulseIn(echo, PULSE_TIMEOUT_US_sheets)),
        lum.lux, lum.iniciado, lum.tentou>> :
      echo \in Duracoes,
      lum \in { luminosidade_sheets(bh1750_iniciado, ok, raw) :
                ok \in BOOLEAN, raw \in LuxBrutos } }

LoopSheets == \E dt \in PassDurations : PassoSheets(dt, LeiturasSheets)

\* ------------------------------------------------------------------------
\* loop() of part_001 (one reading per pass, no averaging)
\* ------------------------------------------------------------------------

\* One pass of loop(): read both sensors, skip the send on a negative lux,
\* send otherwise, delay(30000).
PassoDireto(leituras) ==
    /\ firmware = "sheets_direto"
    /\ nColetas < MaxColetas
    /\ \E t \in leituras :
          LET d == t[2]
              l == t[3]
              rec == Registro(d, l, "ausente", "ausente")
          IN  /\ eco' = t[1]
              /\ bh1750_iniciado' = t[4]
              /\ lightmeter' = t[4]
              /\ tentouBegin' = t[5]
              /\ coletou' = TRUE
              /\ distancia' = d
              /\ lux' = l
              /\ nColetas' = nColetas + 1
              /\ IF l < 0
                 THEN /\ wifi' = wifi
                      /\ relatorio' = << >>
                      /\ pedidos' = << >>
                      /\ respostas' = << >>
                      /\ serial' = <<"lux_invalida">>
                      /\ etapas' = << >>
                      /\ reduzida' = << >>
                      /\ nRelatorios' = nRelatorios
                 ELSE \E statusEnvio \in WiFiStatus, codigo \in Codigos :
                        LET envio == enviar_dados_sheets(statusEnvio, codigo, rec)
                        IN  /\ wifi' = statusEnvio
                            /\ relatorio' = <<rec>>
                            /\ pedidos' = envio.pedidos
                            /\ respostas' = envio.respostas
                            /\ serial' = envio.serial
                            /\ etapas' = <<"reporter">>
                            /\ reduzida' = <<Amostra(d, l)>>
                            /\ nRelatorios' = nRelatorios + 1
    /\ UNCHANGED <<firmware, millis, varsThingspeak, ultimoTempoLeitura,
                   indiceAmostra, amostrasColetadas, distarray, lux_arr,
                   reconectou, semReconexao, decorrido, devido, janela>>

LoopDireto == PassoDireto(LeiturasSheets)

Next == LoopThingspeak \/ LoopSheets \/ LoopDireto

Spec == Init /\ [][Next]_vars

\* ------------------------------------------------------------------------
\* The distance adapter on its own: proximidade() applied to echo pulses
\* ------------------------------------------------------------------------

\* Echo pulse lengths tried on the adapter: around the 2 cm blind zone
\* (116.6 us), 1 cm, 40 cm, 50 cm, around the 350 cm limit (20408.2 us),
\* 400 cm, and around the 30 ms timeout.
EcosBancada ==
    (0..130) \cup {2333, 2916, 20408, 20409, 23324, 29999, 30000, 40000}

\* One call of proximidade() of the flashed sketch.
MedirDistancia ==
    /\ \E echo \in EcosBancada :
          /\ eco' = echo
          /\ distancia' =
                IF firmware = "thingspeak"
                THEN proximidade(pulseIn(echo, PULSE_TIMEOUT_US))
                ELSE proximidade_sheets(pulseIn(echo, PULSE_TIMEOUT_US_sheets))
    /\ UNCHANGED <<firmware, millis, lightmeter, wifi, varsThingspeak, varsSheets,
                   coletou, lux, tentouBegin, relatorio, pedidos, respostas,
                   serial, reconectou, etapas, semReconexao, decorrido, devido,
                   janela, reduzida, nColetas, nRelatorios>>

NextSensor == MedirDistancia

SpecSensor == Init /\ [][NextSensor]_vars

\* ------------------------------------------------------------------------
\* The end-to-end scenario: the adapters replaced by scripted readings
\* ------------------------------------------------------------------------

\* Readings of the scenario, in cm and lx.
CenarioDistancias == <<40, 45, 50, 42, 38>>
CenarioLuxes == <<10, 8, 12, 5, 9>>

\* The pair of readings of the next sampling tick of the scenario.
CenarioLeitura ==
    <<F(CenarioDistancias[nColetas + 1]), F(CenarioLuxes[nColetas + 1])>>

LoopThingspeakCenario ==
    /\ nColetas < Len(CenarioDistancias)
    /\ \E dt \in PassDurations, statusTopo \in WiFiStatus :
          PassoThingspeak(dt, statusTopo,
                          {<<-1, CenarioLeitura[1], CenarioLeitura[2]>>})

LoopSheetsCenario ==
    /\ nColetas < Len(CenarioDistancias)
    /\ \E dt \in PassDurations :
          PassoSheets(dt, {<<-1, CenarioLeitura[1], CenarioLeitura[2], TRUE,
                             ~bh1750_iniciado>>})

InitCenario == Init /\ firmware \in {"thingspeak", "sheets_media"}

NextCenario == LoopThingspeakCenario \/ LoopSheetsCenario

SpecCenario == InitCenario /\ [][NextCenario]_vars

\* ------------------------------------------------------------------------
\* The light meter absent: begin() fails in setup() and in every call of
\* luminosidade(), while every echo pulse gives a plausible distance
\* ------------------------------------------------------------------------

\* Echo pulses that give a distance inside the plausible range.
EcosValidos ==
    {echo \in Duracoes : LET d == Distancia(echo)
                         IN  d >= F(MIN_VALID_DISTANCE_CM) /\ d <= F(MAX_DISTANCE_CM)}

LoopThingspeakSemLuz ==
    \E dt \in PassDurations, statusTopo \in WiFiStatus :
        PassoThingspeak(dt, statusTopo,
                        {t \in LeiturasThingspeak : t[1] \in EcosValidos})

LoopSheetsSemLuz ==
    \E dt \in PassDurations :
        PassoSheets(dt, {t \in LeiturasSheets : t[1] \in EcosValidos /\ ~t[4]})

LoopDiretoSemLuz ==
    PassoDireto({t \in LeiturasSheets : t[1] \in EcosValidos /\ ~t[4]})

InitSemLuz == Init /\ ~lightmeter

NextSemLuz == LoopThingspeakSemLuz \/ LoopSheetsSemLuz \/ LoopDiretoSemLuz

SpecSemLuz == InitSemLuz /\ [][NextSemLuz]_vars

\* ------------------------------------------------------------------------
\* The ThingSpeak sketch with the Wi-Fi link down from the first pass on
\* ------------------------------------------------------------------------

\* Duration of a pass that finds the link down, in ms: delay(100), and up to
\* a millisecond for the rest of the pass.
PassosOffline == {100, 101}

\* One pass of loop() that finds the link down.
LoopThingspeakOffline ==
    \E dt \in PassosOffline : PassoThingspeak(dt, WL_DISCONNECTED, {})

InitOffline == Init /\ firmware = "thingspeak"

NextOffline == LoopThingspeakOffline

SpecOffline == InitOffline /\ [][NextOffline]_vars

\* ------------------------------------------------------------------------
\* Vocabulary of the properties
\* ------------------------------------------------------------------------

Thingspeak == firmware = "thingspeak"
SheetsMedia == firmware = "sheets_media"
SheetsDireto == firmware = "sheets_direto"

\* The two sketches that aggregate a window of samples.
Agrega == Thingspeak \/ SheetsMedia

\* Window size N of the flashed sketch.
Tamanho == IF Thingspeak THEN NUM_AMOSTRAS ELSE NUM_AMOSTRAS_sheets

\* Sampling interval of the flashed sketch.
Intervalo == IF Thingspeak THEN COLETA_INTERVALO_MS ELSE LEITURA_INTERVALO_MS_sheets

\* A reading the specification calls valid: a distance inside the plausible
\* range, a luminosity that is not negative.
DistanciaValida(d) == d >= F(MIN_VALID_DISTANCE_CM) /\ d <= F(MAX_DISTANCE_CM)
LuxValida(l) == l >= 0
AmostraValida(a) == DistanciaValida(a.distancia) /\ LuxValida(a.lux)

RECURSIVE SomaDistancias(_)
SomaDistancias(q) ==
    IF q = << >> THEN 0 ELSE Head(q).distancia + SomaDistancias(Tail(q))

RECURSIVE SomaLuxes(_)
SomaLuxes(q) == IF q = << >> THEN 0 ELSE Head(q).lux + SomaLuxes(Tail(q))

\* rec carries the arithmetic means of exactly the n samples of q.
MediaDe(rec, q, n) ==
    /\ Len(q) = n
    /\ rec.distancia * n = SomaDistancias(q)
    /\ rec.lux * n = SomaLuxes(q)

Relatou == relatorio # << >>

\* ------------------------------------------------------------------------
\* Properties
\* ------------------------------------------------------------------------

\* C1: in both aggregating sketches, when the first N sampling ticks after
\* startup all give valid readings, the record handed to the Reporter at the
\* N-th tick carries sum(s1..sN)/N for each signal.
C1_MediaDasPrimeirasN ==
    (Agrega /\ Relatou /\ nColetas = Tamanho
        /\ \A i \in 1..Len(reduzida) : AmostraValida(reduzida[i]))
    => MediaDe(relatorio[1], reduzida, Tamanho)

\* C1 witness: a first report of the running-sum sketch over five valid
\* samples that are not all equal.
C1_Witness ==
    /\ Thingspeak /\ Relatou /\ nColetas = NUM_AMOSTRAS
    /\ \A i \in 1..Len(reduzida) : AmostraValida(reduzida[i])
    /\ \E i, j \in 1..Len(reduzida) : reduzida[i].distancia # reduzida[j].distancia

\* C2 (as claimed): every record handed to the Reporter carries the means of
\* exactly N samples accepted since the previous report, all of them valid.
C2_RelatorioSoDeValidas ==
    (Agrega /\ Relatou)
    => /\ MediaDe(relatorio[1], reduzida, Tamanho)
       /\ \A i \in 1..Len(reduzida) : AmostraValida(reduzida[i])

\* C3 (as claimed): a sampling tick whose reading is invalid leaves the
\* aggregation state (sums, count, buffers, write cursor) as it was.
C3_InvalidaNaoAltera ==
    [][ (Agrega /\ coletou' /\ ~AmostraValida(Amostra(distancia', lux')))
        => UNCHANGED <<somaDistancia, somaLux, contadorAmostras, distarray,
                       lux_arr, indiceAmostra, amostrasColetadas>> ]_vars

\* Number of valid samples in q.
Validas(q) == Cardinality({i \in 1..Len(q) : AmostraValida(q[i])})

\* C4 (as claimed): after the pass that ends a report cycle the window-full
\* predicate is false, it holds only once N further valid samples have been
\* ingested, and the mean of zero samples is 0.
C4_AposResetNaoCheia ==
    /\ (Thingspeak /\ Relatou) => ~JanelaCheiaThingspeak(contadorAmostras)
    /\ (SheetsMedia /\ Relatou)
       => ~BufferCompleto(amostrasColetadas,
                          (indiceAmostra + 1) % NUM_AMOSTRAS_sheets)
    /\ (Agrega /\ Relatou) => Validas(reduzida) >= Tamanho
    /\ calcular_media(distarray, 0) = F(0)
    /\ (Thingspeak /\ contadorAmostras = 0) => MediaThingspeak(somaDistancia) = F(0)

\* The time stamp the due-check of the flashed sketch compares with.
UltimoDisparo == IF Thingspeak THEN ultimoTempoColeta ELSE ultimoTempoLeitura

\* The last pass evaluated the due-check (the ThingSpeak sketch returns
\* before it while the Wi-Fi is down).
VerificouPrazo == SheetsMedia \/ (Thingspeak /\ wifi = WL_CONNECTED)

\* C5: the due-check fires exactly when the real time since it last fired has
\* reached the interval, and takes the current tick as the new time stamp:
\* two firings are never less than one interval apart, and no evaluation at
\* or after the interval fails to fire, also when the counter has wrapped in
\* between (gaps between evaluations stay below one counter period).
C5_DisparaUmaVezPorIntervalo ==
    Agrega =>
        /\ coletou => (devido >= Intervalo /\ decorrido = 0 /\ UltimoDisparo = millis)
        /\ (~coletou /\ VerificouPrazo) => decorrido < Intervalo

\* C5 witness: a firing, not the first one, with the counter wrapped to a
\* value below the time stamp of the firing before it.
C5_Witness ==
    /\ Agrega /\ coletou /\ nColetas >= 2
    /\ millis < devido

\* C6 (as claimed): the distance adapter returns the sentinel for every
\* measurement below 2 cm or above 350 cm and the measurement itself for
\* every measurement inside the range.
C6_FiltroDeDistancia ==
    (Agrega /\ eco >= 0)
    => IF DistanciaValida(Distancia(eco))
       THEN distancia = Distancia(eco)
       ELSE distancia = F(-1)

\* The means of the scenario: 43.0 and 8.8 over five samples, 44.25 and 8.75
\* over the first four.
Media43 == F(43)
Media8_8 == F(8) + (8 * FIX) \div 10
Media44_25 == F(44) + FIX \div 4
Media8_75 == F(8) + (3 * FIX) \div 4

\* C7 (as claimed): the five ticks of the scenario hand exactly one record
\* to the Reporter, with means 43.0 and 8.8 and both alert flags true.
C7_RegistroComAlertas ==
    /\ nColetas = Len(CenarioDistancias) => nRelatorios = 1
    /\ Relatou => relatorio = <<Registro(Media43, Media8_8, "true", "true")>>

\* C7 (amended): in the scenario exactly one record is handed to the
\* Reporter.  The running-sum sketch (N = 5) builds it at the fifth tick with
\* means 43.0 and 8.8 and no alert fields; the circular-buffer sketch (N = 4)
\* builds it at the fourth tick with means 44.25 and 8.75 and both alert
\* flags true, and the fifth tick reports nothing.
C7_RegistroDoCenario ==
    /\ nRelatorios = (IF nColetas >= Tamanho THEN 1 ELSE 0)
    /\ Relatou =>
          IF Thingspeak
          THEN /\ nColetas = 5
               /\ relatorio = <<Registro(Media43, Media8_8, "ausente", "ausente")>>
          ELSE /\ nColetas = 4
               /\ relatorio = <<Registro(Media44_25, Media8_75, "true", "true")>>

\* C7 witness: the running-sum sketch hands over its record at the fifth
\* tick of the scenario.
C7_Witness == Thingspeak /\ Relatou /\ nColetas = Len(CenarioDistancias)

\* Number of lines of the last pass that read tag.
Linhas(tag) == Cardinality({i \in 1..Len(serial) : serial[i] = tag})

\* C8: in the ThingSpeak sketch, a window that completes while the Wi-Fi is
\* down gives one "Wi-Fi desconectado" line and no request, and the sums and
\* the count are reset all the same.
C8_EnvioPuladoOffline ==
    (Thingspeak /\ Relatou /\ wifi = WL_DISCONNECTED)
    => /\ Linhas("wifi_desconectado") = 1
       /\ pedidos = << >>
       /\ respostas = << >>
       /\ contadorAmostras = 0
       /\ somaDistancia = F(0)
       /\ somaLux = F(0)
       /\ janela = << >>

\* C8 witness: a window of the ThingSpeak sketch completes with the Wi-Fi down.
C8_Witness == Thingspeak /\ Relatou /\ wifi = WL_DISCONNECTED

\* The request of the last pass failed.
Falhou == respostas # << >> /\ respostas[1] \notin 200..299

\* C9: a pass makes at most one request, only for the window it has just
\* completed; the record is the mean of the samples taken since the previous
\* report and of no others, and after the attempt, failed or not, nothing of
\* the window is kept for a later pass.
C9_UmaTentativaPorJanela ==
    /\ Len(pedidos) <= 1
    /\ Len(respostas) = Len(pedidos)
    /\ pedidos # << >> => (Relatou /\ pedidos = relatorio)
    /\ (Agrega /\ Relatou)
       => /\ MediaDe(relatorio[1], reduzida, Tamanho)
          /\ janela = << >>
    /\ (Thingspeak /\ Relatou)
       => (contadorAmostras = 0 /\ somaDistancia = F(0) /\ somaLux = F(0))

\* C9 witness: the second window of the circular-buffer sketch, and its
\* request fails.
C9_Witness == SheetsMedia /\ nRelatorios = 2 /\ Falhou

LogEntregue ==
    \E i \in 1..Len(serial) : serial[i] \in {"envio_bem_sucedido", "dados_enviados"}

LogFalhou == \E i \in 1..Len(serial) : serial[i] = "falha_ao_enviar"

\* C10 (as claimed): a request is logged as delivered only on a 2xx status;
\* any other status and any transport error is logged as failed.
C10_EntregueSo2xx ==
    respostas # << >>
    => /\ LogEntregue <=> respostas[1] \in 200..299
       /\ LogFalhou <=> respostas[1] \notin 200..299

\* Number of samples of q whose distance, whose luminosity, is valid.
ValidasDistancia(q) ==
    Cardinality({i \in 1..Len(q) : DistanciaValida(q[i].distancia)})
ValidasLux(q) == Cardinality({i \in 1..Len(q) : LuxValida(q[i].lux)})

\* C11 (as claimed): whenever the window is found full and a record is built,
\* the window holds exactly N samples taken since the last reset, the same N
\* ticks for both signals, and each signal has N valid values among them.
C11_SinaisSincronizados ==
    (Agrega /\ Relatou)
    => /\ Len(reduzida) = Tamanho
       /\ ValidasDistancia(reduzida) = Tamanho
       /\ ValidasLux(reduzida) = Tamanho

\* C12: in the circular-buffer sketch every record carries alert_proximity =
\* (its own mean distance < 50 cm) and alert_dark = (its own mean luminosity
\* < 30 lx), and the Serial lines name the same alerts; nothing but the means
\* of the record decides the flags.
C12_AlertasDaMediaAtual ==
    (SheetsMedia /\ Relatou)
    => LET rec == relatorio[1]
       IN  /\ rec.alertaProx = (IF rec.distancia < F(LIMIAR_DISTANCIA_CM)
                                THEN "true" ELSE "false")
           /\ rec.alertaLux = (IF rec.lux < F(LIMIAR_LUX)
                               THEN "true" ELSE "false")
           /\ (Linhas("alerta_proximidade") = 1) <=> (rec.alertaProx = "true")
           /\ (Linhas("alerta_luminosidade") = 1) <=> (rec.alertaLux = "true")
           /\ (Linhas("condicao_normal") = 1)
              <=> (rec.alertaProx = "false" /\ rec.alertaLux = "false")

\* C12 witness: the second record of the circular-buffer sketch, the distance
\* mean at or above its threshold and the luminosity mean below its own.
C12_Witness ==
    /\ SheetsMedia /\ nRelatorios = 2 /\ Relatou
    /\ relatorio[1].distancia >= F(LIMIAR_DISTANCIA_CM)
    /\ relatorio[1].distancia < F(MAX_DISTANCE_CM)
    /\ relatorio[1].alertaProx = "false"
    /\ relatorio[1].alertaLux = "true"

\* C13 (as claimed): the link being down never leaves a due sampling tick
\* untaken.
C13_OfflineNaoInterrompe ==
    (Agrega /\ wifi = WL_DISCONNECTED /\ ~coletou) => decorrido < Intervalo

\* The last pass took the sample <<distancia, lux>> into the window that the
\* pass before had left as q.
Ingeriu(q, jan, red, rel, d, l) ==
    IF rel # << >> THEN red = Append(q, Amostra(d, l))
                   ELSE jan = Append(q, Amostra(d, l))

\* C13 (amended): the circular-buffer sketch reads the link only inside the
\* Reporter, so every due tick samples both sensors and stores the sample,
\* whatever the link.  The running-sum sketch returns at the top of every
\* pass that finds the link down: such a pass takes no sample and leaves the
\* sums, the count and the time stamp as they were, and the due tick is taken
\* by the first pass that finds the link up.
C13_OfflinePausaSoThingspeak ==
    [][ /\ SheetsMedia => (coletou' \/ decorrido' < Intervalo)
        /\ (SheetsMedia /\ coletou')
           => Ingeriu(janela, janela', reduzida', relatorio', distancia', lux')
        /\ (Thingspeak /\ wifi' = WL_DISCONNECTED /\ relatorio' = << >>)
           => /\ ~coletou'
              /\ UNCHANGED <<varsThingspeak, janela, nColetas, nRelatorios>>
        /\ (Thingspeak /\ wifi' = WL_CONNECTED /\ ~coletou')
           => decorrido' < Intervalo
        /\ (Thingspeak /\ coletou' /\ leituraValida(distancia', lux'))
           => Ingeriu(janela, janela', reduzida', relatorio', distancia', lux')
      ]_vars

\* C13 witness: the running-sum sketch holds a partly filled window, a
\* sampling tick is due, and the pass finds the link down.
C13_Witness ==
    /\ Thingspeak /\ wifi = WL_DISCONNECTED /\ ~Relatou /\ ~coletou
    /\ decorrido >= COLETA_INTERVALO_MS
    /\ janela # << >>

\* C14 (as claimed): luminosidade() calls begin() only in the first sample
\* taken since startup; once that call has failed, every later sample yields
\* -3.00 (device not ready), and once it has succeeded begin() is not called
\* again.
C14_InicializaUmaVez ==
    [][ /\ tentouBegin' => nColetas = 0
        /\ (~Thingspeak /\ coletou' /\ nColetas > 0 /\ ~bh1750_iniciado)
           => lux' = F(-3)
        /\ bh1750_iniciado => ~tentouBegin'
      ]_vars

\* C15 (as claimed): with the light meter never initialised and every
\* distance reading valid, reports carrying the distance mean keep being
\* handed to the Reporter: by the time MaxColetas sampling ticks have been
\* taken at least one has been.
C15_RelataSemLuz ==
    (Thingspeak \/ SheetsDireto) => (nColetas = MaxColetas => nRelatorios >= 1)

\* C16: the window grows by one sample at a time, in the order the samples
\* are taken; the pass in which it reaches N samples hands exactly one record
\* to the Reporter, carrying the means of exactly those N samples, and empties
\* it; no other pass hands anything over.  So the k-th record is the k-th
\* completed window, and no sample is counted in two records.
C16_RelatoriosNaOrdem ==
    [][ Agrega =>
        LET a == Amostra(distancia', lux')
        IN  /\ nRelatorios' = nRelatorios + Len(relatorio')
            /\ Len(relatorio') <= 1
            /\ relatorio' # << >>
               => /\ reduzida' \in {janela, Append(janela, a)}
                  /\ coletou' \/ reduzida' = janela
                  /\ MediaDe(relatorio'[1], reduzida', Tamanho)
                  /\ janela' = << >>
            /\ relatorio' = << >>
               => /\ janela' \in {janela, Append(janela, a)}
                  /\ coletou' \/ janela' = janela
                  /\ Len(janela') < Tamanho
      ]_vars

\* C16 witness: a second record is handed over and its request is answered
\* with a 2xx status.
C16_Witness ==
    /\ Agrega /\ nRelatorios = 2 /\ Relatou
    /\ respostas # << >> /\ ~Falhou

\* What every pass that hands a record over does, whatever the steps: it has
\* taken a sample in this very pass, that sample completed the window, and
\* after the pass the window is empty and the full-window predicate false,
\* whatever the Reporter did with the record.
EntregaAposIngest ==
    /\ coletou'
    /\ Len(janela) = Tamanho - 1
    /\ reduzida' = Append(janela, Amostra(distancia', lux'))
    /\ MediaDe(relatorio'[1], reduzida', Tamanho)
    /\ janela' = << >>
    /\ Thingspeak => /\ contadorAmostras' = 0
                     /\ somaDistancia' = F(0)
                     /\ somaLux' = F(0)
    /\ SheetsMedia => indiceAmostra' = 0

\* C17 (as claimed): a pass hands a record over only when the sample it has
\* just ingested completed the window, and it then goes through reduce,
\* alert evaluation, Reporter and reset, in this order, the reset whatever
\* the Reporter's outcome; any other pass only ingests, or does nothing.
C17_ReduzAlertaEnviaReinicia ==
    [][ Agrega =>
        IF relatorio' # << >>
        THEN /\ EntregaAposIngest
             /\ etapas' = <<"ingest", "reduce", "alertas", "reporter", "reset">>
        ELSE etapas' \in {<< >>, <<"ingest">>, <<"ingest", "avanca">>}
      ]_vars

\* C17 (amended): the same, except that the running-sum sketch has no alert
\* evaluation: its steps are reduce, Reporter, reset.
C17_ReduzEnviaReinicia ==
    [][ Agrega =>
        IF relatorio' # << >>
        THEN /\ EntregaAposIngest
             /\ etapas' = IF Thingspeak
                          THEN <<"ingest", "reduce", "reporter", "reset">>
                          ELSE <<"ingest", "reduce", "alertas", "reporter",
                                 "reset">>
        ELSE etapas' \in {<< >>, <<"ingest">>, <<"ingest", "avanca">>}
      ]_vars

\* C17 witness: the running-sum sketch hands a record over, the request
\* fails, and the sums and the count are zero after the pass.
C17_Witness ==
    /\ Thingspeak /\ Relatou /\ Falhou
    /\ etapas = <<"ingest", "reduce", "reporter", "reset">>
    /\ contadorAmostras = 0

\* C18: in the circular-buffer sketch a record is handed to the Reporter in
\* exactly the passes that take the 4th, 8th, 12th, ... sample since startup,
\* whatever the readings, so that after n samples n \div 4 records have been
\* handed over.
C18_RelatorioACadaQuatro ==
    SheetsMedia
    => /\ Relatou <=> (coletou /\ nColetas > 0
                        /\ nColetas % NUM_AMOSTRAS_sheets = 0)
       /\ nRelatorios = nColetas \div NUM_AMOSTRAS_sheets
       /\ indiceAmostra = nColetas % NUM_AMOSTRAS_sheets

\* C18 witness: the second record, at the eighth sample, with a reading in
\* its window that is not valid.
C18_Witness ==
    /\ SheetsMedia /\ Relatou /\ nRelatorios = 2
    /\ nColetas = 2 * NUM_AMOSTRAS_sheets
    /\ \E i \in 1..Len(reduzida) : ~AmostraValida(reduzida[i])

\* The echo pulse of the last pass was not received within the pulseIn()
\* timeout of the flashed sketch.
SemEco(e) ==
    /\ e >= 0
    /\ pulseIn(e, IF Thingspeak THEN PULSE_TIMEOUT_US
                                ELSE PULSE_TIMEOUT_US_sheets) = 0

\* C19 (as claimed): a sampling tick whose ranging pulse times out gives the
\* invalid-distance sentinel, leaves the aggregation state and the window as
\* they were, and hands no record over.
C19_TimeoutDescartado ==
    [][ (Agrega /\ coletou' /\ SemEco(eco'))
        => /\ distancia' = F(-1)
           /\ UNCHANGED <<somaDistancia, somaLux, contadorAmostras, distarray,
                          lux_arr, indiceAmostra, amostrasColetadas, janela>>
           /\ relatorio' = << >>
      ]_vars

\* What luminosidade() of the flashed sketch returns when the light meter
\* failed to initialise.
DispositivoNaoPronto == IF Thingspeak THEN F(-2) ELSE F(-3)

\* C20 (as claimed): among the negative results of luminosidade(), the
\* device-not-ready value is returned exactly when the light meter is not
\* initialised, so a negative raw reading of an initialised meter gives a
\* different value; and a sample with either value is not ingested, and in
\* the sketch without a window not sent.
C20_NaoProntaDistinta ==
    (coletou /\ lux < 0)
    => /\ (lux = DispositivoNaoPronto) <=> ~lightmeter
       /\ etapas = << >>
       /\ relatorio = << >>

\* The last pass went through the step passo.
Fez(passo) == \E i \in 1..Len(etapas) : etapas[i] = passo

\* C21: in the ThingSpeak sketch proximidade() returns -1.0 exactly for the
\* measurements outside 2..350 cm (a missing echo included) and the
\* measurement itself otherwise, luminosidade() returns -2.0 exactly when it
\* has no non-negative level to return, and the tick is accepted exactly when
\* both readings are legitimate; in the Sheets sketches luminosidade()
\* returns -3.00 exactly when begin() has just failed.  No legitimate
\* reading equals a sentinel.
C21_SentinelasForaDoDominio ==
    /\ (Thingspeak /\ eco >= 0)
       => /\ (distancia # F(-1))
             <=> (eco < PULSE_TIMEOUT_US /\ DistanciaValida(Distancia(eco)))
          /\ (distancia # F(-1)) => distancia = Distancia(eco)
    /\ (Thingspeak /\ coletou)
       => /\ (lux # F(-2)) <=> LuxValida(lux)
          /\ Fez("ingest") <=> (DistanciaValida(distancia) /\ LuxValida(lux))
    /\ (~Thingspeak /\ coletou)
       => /\ (lux = F(-3)) <=> (tentouBegin /\ ~bh1750_iniciado)
          /\ LuxValida(lux) => bh1750_iniciado

\* C21 witness: the ThingSpeak sketch accepts a tick with a distance of
\* 50 cm, and the light meter works.
C21_Witness ==
    /\ Thingspeak /\ coletou /\ Fez("ingest") /\ lightmeter
    /\ distancia >= F(LIMIAR_DISTANCIA_CM)

\* C22 (as claimed): while the link stays down, WiFi.reconnect() is called in
\* each 5-second period, so the link is never down for two whole periods
\* with no call made.
C22_ReconectaACadaPeriodo ==
    Thingspeak => semReconexao < 2 * PERIODO_RECONEXAO

\* C23: in the ThingSpeak sketch a sampling tick whose two readings are both
\* valid adds the distance to somaDistancia, the luminosity to somaLux and 1
\* to contadorAmostras (the pass that completes the window reports the means
\* of these sums and zeroes them); a tick with at least one invalid reading
\* leaves the three as they were and reports nothing.
C23_AceitaSoAmbasValidas ==
    [][ (Thingspeak /\ coletou')
        => IF DistanciaValida(distancia') /\ LuxValida(lux')
           THEN IF relatorio' = << >>
                THEN /\ somaDistancia' = somaDistancia + distancia'
                     /\ somaLux' = somaLux + lux'
                     /\ contadorAmostras' = contadorAmostras + 1
                ELSE /\ relatorio'[1].distancia * NUM_AMOSTRAS
                          = somaDistancia + distancia'
                     /\ relatorio'[1].lux * NUM_AMOSTRAS = somaLux + lux'
                     /\ contadorAmostras + 1 = NUM_AMOSTRAS
           ELSE /\ UNCHANGED <<somaDistancia, somaLux, contadorAmostras>>
                /\ relatorio' = << >>
      ]_vars

\* C23 witness: with a window in progress, a tick gives a valid distance and
\* an invalid luminosity.
C23_Witness ==
    /\ Thingspeak /\ coletou /\ contadorAmostras > 0
    /\ DistanciaValida(distancia) /\ ~LuxValida(lux)
    /\ Linhas("descartada_lux") = 1 /\ Linhas("descartada_distancia") = 0

\* C24: in the ThingSpeak sketch, after every pass contadorAmostras is in
\* 0..NUM_AMOSTRAS-1 and is the number of samples accepted since the last
\* reset, somaDistancia and somaLux are the sums of those samples (zero when
\* there is none), and the count the sending branch finds is NUM_AMOSTRAS
\* exactly, never more.
C24_ContadorESomas ==
    Thingspeak
    => /\ contadorAmostras \in 0..(NUM_AMOSTRAS - 1)
       /\ contadorAmostras = Len(janela)
       /\ somaDistancia = SomaDistancias(janela)
       /\ somaLux = SomaLuxes(janela)
       /\ contadorAmostras = 0 => (somaDistancia = F(0) /\ somaLux = F(0))
       /\ Relatou => Len(reduzida) = NUM_AMOSTRAS

\* C24 witness: four samples accepted since the first reset, not all with
\* the same distance.
C24_Witness ==
    /\ Thingspeak /\ nRelatorios = 1
    /\ contadorAmostras = NUM_AMOSTRAS - 1
    /\ \E i, j \in 1..Len(janela) : janela[i].distancia # janela[j].distancia

\* C25: in the circular-buffer sketch the write cursor is always in
\* 0..NUM_AMOSTRAS-1; a due tick writes both arrays at the cursor and nowhere
\* else, moves the cursor by one modulo NUM_AMOSTRAS and adds one to
\* amostrasColetadas unless it is NUM_AMOSTRAS already; a pass without a due
\* tick changes none of them; amostrasColetadas never goes down and never
\* exceeds NUM_AMOSTRAS.
C25_IndiceDentroDoBuffer ==
    [][ SheetsMedia =>
        /\ indiceAmostra \in 0..(NUM_AMOSTRAS_sheets - 1)
        /\ indiceAmostra' \in 0..(NUM_AMOSTRAS_sheets - 1)
        /\ amostrasColetadas' \in 0..NUM_AMOSTRAS_sheets
        /\ amostrasColetadas' >= amostrasColetadas
        /\ IF coletou'
           THEN /\ indiceAmostra' = (indiceAmostra + 1) % NUM_AMOSTRAS_sheets
                /\ distarray' = [distarray EXCEPT ![indiceAmostra] = distancia']
                /\ lux_arr' = [lux_arr EXCEPT ![indiceAmostra] = lux']
                /\ distarray'[indiceAmostra] = distancia'
                /\ lux_arr'[indiceAmostra] = lux'
                /\ amostrasColetadas' =
                      IF amostrasColetadas = NUM_AMOSTRAS_sheets
                      THEN NUM_AMOSTRAS_sheets ELSE amostrasColetadas + 1
           ELSE UNCHANGED <<indiceAmostra, amostrasColetadas, distarray,
                            lux_arr>>
      ]_vars

\* C25 witness: the eighth due tick: the cursor has wrapped to 0 for the
\* second time and amostrasColetadas has stayed at NUM_AMOSTRAS.
C25_Witness ==
    /\ SheetsMedia /\ coletou /\ nColetas = 2 * NUM_AMOSTRAS_sheets
    /\ indiceAmostra = 0
    /\ amostrasColetadas = NUM_AMOSTRAS_sheets

====
